---- MODULE Spec2Model ----
(***************************************************************************)
(* Monte Carlo Tree Search (play.py) over the TicTacToe and SuperTicTacToe *)
(* game states of game_state.py.                                           *)
(*                                                                         *)
(* Conventions of the model                                                *)
(*   - Python lists are sequences; a Python index k is the TLA+ index k+1. *)
(*   - A game result is counted in halves: 2 is 1.0, 1 is 0.5, 0 is 0.0,   *)
(*     so Node.wins is an integer number of halves (the float sums of      *)
(*     multiples of 0.5 are exact).                                        *)
(*   - A TicTacToe move is a square 0..8; a SuperTicTacToe move is the     *)
(*     pair <<sub_board, square>>.                                         *)
(*   - Game state objects live in `heap`, addressed by a reference, so     *)
(*     that a clone that aliases its original is expressible.  The lists   *)
(*     inside a state object are copied by value, as board[:] and          *)
(*     deepcopy produce fresh lists.                                       *)
(***************************************************************************)
EXTENDS Integers, Sequences, FiniteSets, TLC

\* ------------------------------------------------------------- bounds

\* search is called with itermax in -1 .. MaxIter.
MaxIter == 5

\* search is called on the TicTacToe positions with at most MaxEmpty empty
\* squares that follow the opening TTT_OPENING.
MaxEmpty == 3

\* search is called on the SuperTicTacToe positions at most MaxBack moves
\* before the end of a scripted game.
MaxBack == 5

\* The game harness plays at most MaxPlies free SuperTicTacToe moves from a
\* position of a scripted game; so does a played game from the positions
\* more than MaxBack moves before the end of the script.
MaxPlies == 1

\* ---------------------------------------------------- program constants

\* get_result: 1.0, 0.5 and 0.0 in halves.
WIN == 2
DRAW == 1
LOSS == 0

\* The number of sub boards a player needs (get_moves, get_result).
SUB_BOARDS_TO_WIN == 3

\* ------------------------------------------------------------- helpers

\* range(9)
Range9 == <<0, 1, 2, 3, 4, 5, 6, 7, 8>>

\* The lines of three squares, in the order the code tries them.
LINES == << <<0, 1, 2>>, <<3, 4, 5>>, <<6, 7, 8>>, <<0, 3, 6>>, <<1, 4, 7>>,
            <<2, 5, 8>>, <<0, 4, 8>>, <<2, 4, 6>> >>

RECURSIVE Flatten(_)
Flatten(ss) == IF ss = << >> THEN << >> ELSE Head(ss) \o Flatten(Tail(ss))

SeqToSet(s) == {s[k] : k \in 1..Len(s)}

\* list.remove(x): drops the first occurrence of x.
RECURSIVE Remove(_, _)
Remove(s, x) ==
    IF s = << >> THEN << >>
    ELSE IF Head(s) = x THEN Tail(s)
    ELSE <<Head(s)>> \o Remove(Tail(s), x)

Opponent(p) == 3 - p

\* Player p has three in a row on a board of nine squares.
HasLine(b, p) ==
    \E l \in SeqToSet(LINES) : b[l[1] + 1] = p /\ b[l[2] + 1] = p /\ b[l[3] + 1] = p

\* ----------------------------------------------------------- TicTacToe

TicTacToe_init ==
    [game |-> "TicTacToe",
     player_just_moved |-> 2,
     board |-> <<0, 0, 0, 0, 0, 0, 0, 0, 0>>]

TicTacToe_clone(self) ==
    [game |-> "TicTacToe",
     player_just_moved |-> self.player_just_moved,
     board |-> self.board]

\* The assertion of do_move (moves are integers here).
TicTacToe_do_move_assert(self, move) ==
    /\ move >= 0
    /\ move <= 8
    /\ self.board[move + 1] = 0

TicTacToe_do_move(self, move) ==
    LET p == 3 - self.player_just_moved
    IN  [self EXCEPT !.player_just_moved = p,
                     !.board = [self.board EXCEPT ![move + 1] = p]]

TicTacToe_get_moves(self) ==
    SelectSeq(Range9, LAMBDA i : self.board[i + 1] = 0)

\* The lines whose three squares hold the same value (empty lines included,
\* as in the code), in order.
TicTacToe_equal_lines(self) ==
    SelectSeq(LINES, LAMBDA l : /\ self.board[l[1] + 1] = self.board[l[2] + 1]
                                /\ self.board[l[2] + 1] = self.board[l[3] + 1])

\* TRUE when get_result runs into its final `assert False`.
TicTacToe_get_result_asserts(self) ==
    /\ TicTacToe_equal_lines(self) = << >>
    /\ TicTacToe_get_moves(self) # << >>

\* get_result that looks for a line of `player` before any other line.
TicTacToe_get_result_own_line(self, player) ==
    LET eq == TicTacToe_equal_lines(self)
    IN  IF \E k \in 1..Len(eq) : self.board[eq[k][1] + 1] = player THEN WIN
        ELSE IF eq # << >> THEN LOSS
        ELSE DRAW

\* get_result with `return 0.0` for a full board without a line.
TicTacToe_get_result_no_draw(self, player) ==
    LET eq == TicTacToe_equal_lines(self)
    IN  IF eq # << >>
        THEN IF self.board[eq[1][1] + 1] = player THEN WIN ELSE LOSS
        ELSE LOSS

TicTacToe_get_result(self, player) ==
    LET eq == TicTacToe_equal_lines(self)
    IN  IF eq # << >>
        THEN IF self.board[eq[1][1] + 1] = player THEN WIN ELSE LOSS
        ELSE DRAW

\* ------------------------------------------------------ SuperTicTacToe

SuperTicTacToe_init ==
    [game |-> "SuperTicTacToe",
     player_just_moved |-> 2,
     board |-> [i \in 1..9 |-> <<0, 0, 0, 0, 0, 0, 0, 0, 0>>],
     sub_boards_won |-> <<0, 0, 0>>,
     squares_played |-> 0,
     last_square_played |-> 0]

SuperTicTacToe_clone(self) ==
    [game |-> "SuperTicTacToe",
     player_just_moved |-> self.player_just_moved,
     board |-> self.board,
     sub_boards_won |-> self.sub_boards_won,
     squares_played |-> self.squares_played,
     last_square_played |-> 0]

wins_sub_board(self, player, sub_board) ==
    LET sub == self.board[sub_board + 1]
    IN  \E k \in 1..Len(LINES) :
            /\ sub[LINES[k][1] + 1] = sub[LINES[k][2] + 1]
            /\ sub[LINES[k][2] + 1] = sub[LINES[k][3] + 1]
            /\ sub[LINES[k][1] + 1] = player

\* The assertions of do_move (moves are pairs of board indices here).
SuperTicTacToe_do_move_assert(self, move) ==
    /\ Len(move) = 2
    /\ self.board[move[1] + 1][move[2] + 1] = 0

SuperTicTacToe_do_move(self, move) ==
    LET sub_board == move[1]
        square == move[2]
        p == 3 - self.player_just_moved
        marked == [self EXCEPT !.player_just_moved = p,
                               !.last_square_played = square,
                               !.squares_played = @ + 1,
                               !.board[sub_board + 1][square + 1] = p]
    IN  IF wins_sub_board(marked, p, sub_board)
        THEN [marked EXCEPT !.sub_boards_won[p + 1] = @ + 1]
        ELSE marked

sub_board_is_available(self, sub_board) ==
    IF wins_sub_board(self, 1, sub_board) THEN FALSE
    ELSE IF wins_sub_board(self, 2, sub_board) THEN FALSE
    ELSE \E i \in 0..8 : self.board[sub_board + 1][i + 1] = 0

\* The empty squares of one sub board, as moves, in order.
SubBoardMoves(self, sub_board) ==
    [k \in 1..Len(TicTacToe_get_moves([board |-> self.board[sub_board + 1]]))
        |-> <<sub_board,
              TicTacToe_get_moves([board |-> self.board[sub_board + 1]])[k]>>]

\* get_moves whose last branch lists the empty squares of every sub board,
\* available or not.
SuperTicTacToe_get_moves_any_sub_board(self) ==
    IF \/ self.sub_boards_won[1 + 1] = SUB_BOARDS_TO_WIN
       \/ self.sub_boards_won[2 + 1] = SUB_BOARDS_TO_WIN
    THEN << >>
    ELSE IF self.squares_played = 0
    THEN Flatten([i \in 1..9 |-> [j \in 1..9 |-> <<i - 1, j - 1>>]])
    ELSE IF sub_board_is_available(self, self.last_square_played)
    THEN SubBoardMoves(self, self.last_square_played)
    ELSE Flatten([k \in 1..9 |-> SubBoardMoves(self, k - 1)])

SuperTicTacToe_get_moves(self) ==
    IF \/ self.sub_boards_won[1 + 1] = SUB_BOARDS_TO_WIN
       \/ self.sub_boards_won[2 + 1] = SUB_BOARDS_TO_WIN
    THEN << >>
    ELSE IF self.squares_played = 0
    THEN Flatten([i \in 1..9 |-> [j \in 1..9 |-> <<i - 1, j - 1>>]])
    ELSE IF sub_board_is_available(self, self.last_square_played)
    THEN SubBoardMoves(self, self.last_square_played)
    ELSE Flatten([k \in 1..9 |->
                    IF sub_board_is_available(self, k - 1)
                    THEN SubBoardMoves(self, k - 1)
                    ELSE << >>])

SuperTicTacToe_get_result(self, player) ==
    IF self.sub_boards_won[player + 1] = SUB_BOARDS_TO_WIN THEN WIN
    ELSE IF self.sub_boards_won[(3 - player) + 1] = SUB_BOARDS_TO_WIN THEN LOSS
    ELSE DRAW

\* ------------------------------------------- GameState (dynamic dispatch)

clone(self) ==
    IF self.game = "TicTacToe" THEN TicTacToe_clone(self)
    ELSE SuperTicTacToe_clone(self)

do_move_assert(self, move) ==
    IF self.game = "TicTacToe" THEN TicTacToe_do_move_assert(self, move)
    ELSE SuperTicTacToe_do_move_assert(self, move)

do_move(self, move) ==
    IF self.game = "TicTacToe" THEN TicTacToe_do_move(self, move)
    ELSE SuperTicTacToe_do_move(self, move)

get_moves(self) ==
    IF self.game = "TicTacToe" THEN TicTacToe_get_moves(self)
    ELSE SuperTicTacToe_get_moves(self)

get_result_asserts(self) ==
    IF self.game = "TicTacToe" THEN TicTacToe_get_result_asserts(self)
    ELSE FALSE

get_result(self, player) ==
    IF self.game = "TicTacToe" THEN TicTacToe_get_result(self, player)
    ELSE SuperTicTacToe_get_result(self, player)

\* ------------------------------------------------------ the game harness

\* Two complete games of SuperTicTacToe, each move taken from get_moves():
\* the first ends in a draw (no sub board is available), the second with
\* player 2 winning a third sub board.
SCRIPT_DRAW ==
    << <<1,0>>, <<0,3>>, <<3,5>>, <<5,0>>, <<0,5>>, <<5,6>>, <<6,4>>, <<4,0>>,
       <<0,1>>, <<1,8>>, <<8,7>>, <<7,5>>, <<5,2>>, <<2,7>>, <<7,2>>, <<2,4>>,
       <<4,4>>, <<4,5>>, <<5,8>>, <<8,1>>, <<1,4>>, <<4,6>>, <<6,6>>, <<6,0>>,
       <<0,7>>, <<7,7>>, <<7,6>>, <<6,8>>, <<8,0>>, <<0,0>>, <<0,4>>, <<4,3>>,
       <<3,6>>, <<6,7>>, <<7,4>>, <<2,1>>, <<1,2>>, <<6,3>>, <<3,8>>, <<8,8>>,
       <<8,6>>, <<6,2>>, <<3,3>>, <<3,0>>, <<8,2>>, <<3,2>>, <<8,5>>, <<5,1>>,
       <<1,7>>, <<8,4>>, <<5,3>>, <<3,7>>, <<1,3>>, <<3,4>>, <<5,4>>, <<1,6>>,
       <<6,1>>, <<1,5>>, <<5,7>>, <<1,1>>, <<6,5>>, <<5,5>>, <<3,1>>, <<8,3>> >>

SCRIPT_WIN ==
    << <<4,1>>, <<1,8>>, <<8,0>>, <<0,0>>, <<0,5>>, <<5,8>>, <<8,7>>, <<7,1>>,
       <<1,0>>, <<0,8>>, <<8,1>>, <<1,1>>, <<1,4>>, <<4,5>>, <<5,4>>, <<4,0>>,
       <<0,2>>, <<2,2>>, <<2,6>>, <<6,1>>, <<1,3>>, <<3,4>>, <<4,4>>, <<4,6>>,
       <<6,0>>, <<0,7>>, <<7,0>>, <<0,4>>, <<4,7>>, <<7,8>>, <<8,5>>, <<5,3>>,
       <<3,5>>, <<5,1>>, <<1,2>>, <<2,5>>, <<5,5>>, <<5,2>>, <<2,4>>, <<1,6>>,
       <<6,6>>, <<6,7>>, <<7,7>>, <<7,6>>, <<6,4>>, <<3,7>>, <<7,5>>, <<5,6>>,
       <<6,3>>, <<3,6>>, <<5,7>>, <<7,2>>, <<2,0>>, <<8,6>>, <<1,7>>, <<7,3>>,
       <<3,0>>, <<8,4>>, <<3,2>>, <<2,7>>, <<7,4>>, <<8,2>>, <<2,1>>, <<1,5>>,
       <<5,0>>, <<2,3>>, <<3,3>>, <<3,1>> >>

SCRIPTS == {SCRIPT_DRAW, SCRIPT_WIN}

\* The position after the first n moves of a script, written out field by
\* field: move k is made by player 1 when k is odd.
Position(script, n) ==
    LET mover(k) == IF k % 2 = 1 THEN 1 ELSE 2
        mark(sb, sq) ==
            IF \E k \in 1..n : script[k] = <<sb, sq>>
            THEN mover(CHOOSE k \in 1..n : script[k] = <<sb, sq>>)
            ELSE 0
        b == [sb \in 1..9 |-> [sq \in 1..9 |-> mark(sb - 1, sq - 1)]]
        won(p) == Cardinality({sb \in 0..8 : wins_sub_board([board |-> b], p, sb)})
    IN  [game |-> "SuperTicTacToe",
         player_just_moved |-> IF n = 0 THEN 2 ELSE mover(n),
         board |-> b,
         sub_boards_won |-> <<0, won(1), won(2)>>,
         squares_played |-> n,
         last_square_played |-> IF n = 0 THEN 0 ELSE script[n][2]]

\* TRUE when the positions of the script are those the code produces from
\* SuperTicTacToe() by do_move, every move taken from get_moves().
ScriptIsLegal(script) ==
    /\ Position(script, 0) = SuperTicTacToe_init
    /\ \A n \in 1..Len(script) :
          /\ script[n] \in SeqToSet(get_moves(Position(script, n - 1)))
          /\ do_move_assert(Position(script, n - 1), script[n])
          /\ do_move(Position(script, n - 1), script[n]) = Position(script, n)

ScriptsAreLegal == \A s \in SCRIPTS : ScriptIsLegal(s)

\* The states after exactly n legal moves from `self`.
RECURSIVE Reached(_, _)
Reached(self, n) ==
    IF n = 0 THEN {self}
    ELSE UNION {{do_move(s, m) : m \in SeqToSet(get_moves(s))} :
                    s \in Reached(self, n - 1)}

\* The first moves of a game of TicTacToe: X on 0 and 8, O on 4 and 2.
TTT_OPENING == <<0, 4, 8, 2>>

TicTacToe_opened ==
    do_move(do_move(do_move(do_move(TicTacToe_init, TTT_OPENING[1]),
                            TTT_OPENING[2]), TTT_OPENING[3]), TTT_OPENING[4])

\* The positions search is called on.
TicTacToeRoots ==
    UNION {Reached(TicTacToe_opened, (9 - Len(TTT_OPENING)) - e) : e \in 0..MaxEmpty}

SuperTicTacToeRoots ==
    {Position(s, Len(s) - k) : s \in SCRIPTS, k \in 0..MaxBack}

Roots == TicTacToeRoots \cup SuperTicTacToeRoots

\* ---------------------------------------------------------------- Node

\* Python's None, and a value that is not None.
None == << >>
Some(x) == <<x>>

\* Node.__init__ that stores the player to move in place of the player who
\* just moved.
Node_player_to_move(move, parent, s) ==
    [move |-> move,
     parent_node |-> parent,
     child_nodes |-> << >>,
     wins |-> 0,
     visits |-> 0,
     untried_moves |-> get_moves(s),
     player_just_moved |-> 3 - s.player_just_moved]

Node(move, parent, s) ==
    [move |-> move,
     parent_node |-> parent,
     child_nodes |-> << >>,
     wins |-> 0,
     visits |-> 0,
     untried_moves |-> get_moves(s),
     player_just_moved |-> s.player_just_moved]

\* ln(n) * UCB_SCALE, rounded, for n = 1 .. 12.
LN_SCALED == <<0, 13863, 21972, 27726, 32189, 35835, 38918, 41589, 43944,
               46052, 47958, 49698>>

\* UCB1 keys are compared in fixed point, in units of 1 / UCB_SCALE.
UCB_SCALE == 20000

\* The largest r with r * r <= x, for 0 <= x < 2^31.
RECURSIVE ISqrtBetween(_, _, _)
ISqrtBetween(x, lo, hi) ==
    IF lo = hi THEN lo
    ELSE LET mid == (lo + hi + 1) \div 2
         IN  IF mid * mid <= x THEN ISqrtBetween(x, mid, hi)
             ELSE ISqrtBetween(x, lo, mid - 1)

ISqrt(x) == ISqrtBetween(x, 0, 46340)

\* c.wins / c.visits + sqrt(2 * log(self.visits) / c.visits), scaled; wins
\* are halves, so wins / visits is wins / (2 * visits).
UCB1(self, c) ==
    (c.wins * UCB_SCALE) \div (2 * c.visits)
        + ISqrt((2 * LN_SCALED[self.visits] * UCB_SCALE) \div c.visits)

\* The exception select_child raises, or "" when it raises none: the key of
\* the children is evaluated in order, c.wins / c.visits first.
select_child_raises(t, n) ==
    LET self == t[n]
        first == t[self.child_nodes[1]]
    IN  IF first.visits = 0 THEN "ZeroDivisionError"
        ELSE IF self.visits <= 0 THEN "ValueError"
        ELSE IF \E k \in 1..Len(self.child_nodes) :
                    t[self.child_nodes[k]].visits = 0
        THEN "ZeroDivisionError"
        ELSE ""

\* select_child with the key c.wins / c.visits alone.
select_child_by_win_rate(t, n) ==
    LET self == t[n]
        cs == self.child_nodes
        key(k) == (t[cs[k]].wins * UCB_SCALE) \div (2 * t[cs[k]].visits)
        best == CHOOSE k \in 1..Len(cs) :
                    /\ \A j \in 1..Len(cs) : key(j) <= key(k)
                    /\ \A j \in (k + 1)..Len(cs) : key(j) < key(k)
    IN  cs[best]

\* sorted(child_nodes, key)[-1]: the sort is stable, so of the children with
\* the greatest key the last one in child_nodes is returned.
select_child(t, n) ==
    LET self == t[n]
        cs == self.child_nodes
        key(k) == UCB1(self, t[cs[k]])
        best == CHOOSE k \in 1..Len(cs) :
                    /\ \A j \in 1..Len(cs) : key(j) <= key(k)
                    /\ \A j \in (k + 1)..Len(cs) : key(j) < key(k)
    IN  cs[best]

\* add_child without untried_moves.remove(move).
add_child_keeps_untried(t, n, move, s) ==
    Append([t EXCEPT ![n].child_nodes = Append(@, Len(t) + 1)],
           Node(Some(move), n, s))

\* add_child: the new node becomes the last node of the tree, so its index
\* is the length of the new tree.
add_child(t, n, move, s) ==
    Append([t EXCEPT ![n].untried_moves = Remove(@, move),
                     ![n].child_nodes = Append(@, Len(t) + 1)],
           Node(Some(move), n, s))

\* update without `self.visits += 1`.
update_no_visit(self, result) ==
    [self EXCEPT !.wins = @ + result]

\* update with `self.wins -= result`.
update_subtracts(self, result) ==
    [self EXCEPT !.visits = @ + 1, !.wins = @ - result]

\* update that counts whole wins only: a draw adds nothing to wins.
update_wins_only(self, result) ==
    [self EXCEPT !.visits = @ + 1,
                 !.wins = @ + (IF result = WIN THEN WIN ELSE 0)]

update(self, result) ==
    [self EXCEPT !.visits = @ + 1, !.wins = @ + result]

\* The backpropagation loop with `while node.parent_node != None`: the root
\* is never updated.
RECURSIVE Backpropagated_stops_below_root(_, _, _)
Backpropagated_stops_below_root(t, n, s) ==
    IF n = 0 \/ t[n].parent_node = 0 THEN t
    ELSE Backpropagated_stops_below_root(
            [t EXCEPT ![n] = [@ EXCEPT !.visits = @ + 1,
                                       !.wins = @ + get_result(s, t[n].player_just_moved)]],
            t[n].parent_node, s)

\* The backpropagation loop with the result taken once, from the viewpoint
\* p of the node the loop starts at.
RECURSIVE BackpropagatedFor(_, _, _, _)
BackpropagatedFor(t, n, s, p) ==
    IF n = 0 THEN t
    ELSE BackpropagatedFor(
            [t EXCEPT ![n] = [@ EXCEPT !.visits = @ + 1,
                                       !.wins = @ + get_result(s, p)]],
            t[n].parent_node, s, p)

Backpropagated_one_viewpoint(t, n, s) ==
    IF n = 0 THEN t ELSE BackpropagatedFor(t, n, s, t[n].player_just_moved)

\* The backpropagation loop of search, from node n up to the root.
RECURSIVE Backpropagated(_, _, _)
Backpropagated(t, n, s) ==
    IF n = 0 THEN t
    ELSE Backpropagated(
            [t EXCEPT ![n] = update(@, get_result(s, @.player_just_moved))],
            t[n].parent_node, s)

\* sorted(rootnode.child_nodes, key=visits)[0]: of the children with the
\* fewest visits, the first one in child_nodes.
least_visited(t) ==
    LET cs == t[1].child_nodes
        best == CHOOSE k \in 1..Len(cs) :
                    /\ \A j \in 1..Len(cs) : t[cs[j]].visits >= t[cs[k]].visits
                    /\ \A j \in 1..(k - 1) : t[cs[j]].visits > t[cs[k]].visits
    IN  cs[best]

\* sorted(rootnode.child_nodes, key=visits)[-1]: of the children with the
\* most visits, the last one in child_nodes.
most_visited(t) ==
    LET cs == t[1].child_nodes
        best == CHOOSE k \in 1..Len(cs) :
                    /\ \A j \in 1..Len(cs) : t[cs[j]].visits <= t[cs[k]].visits
                    /\ \A j \in (k + 1)..Len(cs) :
                           t[cs[j]].visits < t[cs[k]].visits
    IN  cs[best]

\* ------------------------------------------------------------- state

VARIABLES
    heap,        \* the game state objects: reference -> fields
    rootstate,   \* search's argument: the reference of the caller's state
    itermax,     \* search's argument
    pc,          \* where the program is, or the exception that ended it
    i,           \* search's loop counter
    tree,        \* the Node objects, in creation order; rootnode is tree[1]
    node,        \* search's local `node`: an index of tree, 0 for None
    state,       \* search's local `state`: a reference
    ret,         \* None, or Some(the move search returned)
    arg,         \* harness: None, or Some(the move of the last do_move call)
    plies,       \* harness: the free moves played so far
    rootstate0,  \* history: the fields of the caller's state when search was called
    started,     \* history: per iteration, the node its backpropagation started at
    first_line   \* history of a played game: the player who first had three in a
                 \* row on the TicTacToe board, 0 while there is none

vars == <<heap, rootstate, itermax, pc, i, tree, node, state, ret, arg, plies,
          rootstate0, started, first_line>>

\* The reference of the caller's game state object.
ROOT_REF == "rootstate"

\* clone with `state = self` in place of a new object.
Allocate_alias(self) == self

\* The reference of the object that TicTacToe() or SuperTicTacToe()
\* constructs inside clone: a new object, distinct from self.
Allocate(self) == "clone"

\* state = self.clone(): the heap with the clone in it.
Cloned(h, self) ==
    [r \in DOMAIN h \cup {Allocate(self)} |->
        IF r = Allocate(self) THEN clone(h[self]) ELSE h[r]]

\* ------------------------------------------------------------- search

Init ==
    /\ ScriptsAreLegal = TRUE
    /\ heap \in {[r \in {ROOT_REF} |-> s] : s \in Roots}
    /\ rootstate = ROOT_REF
    /\ itermax \in -1..MaxIter
    /\ pc = "call"
    /\ i = 0
    /\ tree = << >>
    /\ node = 0
    /\ state = ROOT_REF
    /\ ret = None
    /\ arg = None
    /\ plies = 0
    /\ rootstate0 = heap[ROOT_REF]
    /\ started = << >>
    /\ first_line = 0

\* rootnode = Node(state=rootstate.clone()): the root's untried moves are
\* those of a copy of the caller's state.
Enter_from_clone ==
    /\ pc = "call"
    /\ tree' = <<Node(None, 0, clone(heap[rootstate]))>>
    /\ pc' = "for"
    /\ UNCHANGED <<heap, rootstate, itermax, i, node, state, ret, arg, plies,
                   rootstate0, started, first_line>>

\* rootnode = Node(state=rootstate)
Enter ==
    /\ pc = "call"
    /\ tree' = <<Node(None, 0, heap[rootstate])>>
    /\ pc' = "for"
    /\ UNCHANGED <<heap, rootstate, itermax, i, node, state, ret, arg, plies,
                   rootstate0, started, first_line>>

\* for i in range(itermax): node = rootnode; state = rootstate.clone()
Iterate ==
    /\ pc = "for"
    /\ i < itermax
    /\ node' = 1
    /\ heap' = Cloned(heap, rootstate)
    /\ state' = Allocate(rootstate)
    /\ pc' = "select"
    /\ UNCHANGED <<rootstate, itermax, i, tree, ret, arg, plies, rootstate0,
                   started, first_line>>

\* The condition of a selection loop that descends whenever the node has a
\* child, untried moves or not.
HasChildren(n) ==
    tree[n].child_nodes # << >>

\* The condition of the selection loop.
FullyExpanded(n) ==
    /\ tree[n].untried_moves = << >>
    /\ tree[n].child_nodes # << >>

\* One turn of the selection loop.
Select ==
    /\ pc = "select"
    /\ FullyExpanded(node)
    /\ IF select_child_raises(tree, node) # ""
       THEN /\ pc' = select_child_raises(tree, node)
            /\ UNCHANGED <<node, heap>>
       ELSE LET c == select_child(tree, node)
            IN  /\ node' = c
                /\ IF do_move_assert(heap[state], tree[c].move[1])
                   THEN /\ heap' = [heap EXCEPT ![state] = do_move(@, tree[c].move[1])]
                        /\ pc' = "select"
                   ELSE /\ pc' = "AssertionError"
                        /\ UNCHANGED heap
    /\ UNCHANGED <<rootstate, itermax, i, tree, state, ret, arg, plies,
                   rootstate0, started, first_line>>

\* The selection loop ends; a node with untried moves is expanded by one of
\* them, m = random.choice(node.untried_moves).
Expand ==
    /\ pc = "select"
    /\ ~FullyExpanded(node)
    /\ IF tree[node].untried_moves # << >>
       THEN \E m \in SeqToSet(tree[node].untried_moves) :
               IF do_move_assert(heap[state], m)
               THEN /\ heap' = [heap EXCEPT ![state] = do_move(@, m)]
                    /\ tree' = add_child(tree, node, m, heap'[state])
                    /\ node' = Len(tree')
                    /\ pc' = "rollout"
               ELSE /\ pc' = "AssertionError"
                    /\ UNCHANGED <<heap, tree, node>>
       ELSE /\ pc' = "rollout"
            /\ UNCHANGED <<heap, tree, node>>
    /\ UNCHANGED <<rootstate, itermax, i, state, ret, arg, plies, rootstate0,
                   started, first_line>>

\* A turn of the rollout loop that adds a node for its move, as expansion
\* does.
Rollout_grows_tree ==
    /\ pc = "rollout"
    /\ get_moves(heap[state]) # << >>
    /\ \E m \in SeqToSet(get_moves(heap[state])) :
          IF do_move_assert(heap[state], m)
          THEN /\ heap' = [heap EXCEPT ![state] = do_move(@, m)]
               /\ tree' = add_child(tree, node, m, heap'[state])
               /\ node' = Len(tree')
               /\ pc' = "rollout"
          ELSE /\ pc' = "AssertionError"
               /\ UNCHANGED <<heap, tree, node>>
    /\ UNCHANGED <<rootstate, itermax, i, state, ret, arg, plies, rootstate0,
                   started, first_line>>

\* A turn of the rollout loop that plays its move on a copy of the state:
\* state.clone().do_move(random.choice(state.get_moves()))
Rollout_on_copy ==
    /\ pc = "rollout"
    /\ get_moves(heap[state]) # << >>
    /\ \E m \in SeqToSet(get_moves(heap[state])) :
          IF do_move_assert(heap[state], m)
          THEN /\ heap' = [r \in DOMAIN heap \cup {"copy"} |->
                              IF r = "copy" THEN do_move(clone(heap[state]), m)
                              ELSE heap[r]]
               /\ pc' = "rollout"
          ELSE /\ pc' = "AssertionError"
               /\ UNCHANGED heap
    /\ UNCHANGED <<rootstate, itermax, i, tree, node, state, ret, arg, plies,
                   rootstate0, started, first_line>>

\* One turn of the rollout loop: state.do_move(random.choice(state.get_moves()))
Rollout ==
    /\ pc = "rollout"
    /\ get_moves(heap[state]) # << >>
    /\ \E m \in SeqToSet(get_moves(heap[state])) :
          IF do_move_assert(heap[state], m)
          THEN /\ heap' = [heap EXCEPT ![state] = do_move(@, m)]
               /\ pc' = "rollout"
          ELSE /\ pc' = "AssertionError"
               /\ UNCHANGED heap
    /\ UNCHANGED <<rootstate, itermax, i, tree, node, state, ret, arg, plies,
                   rootstate0, started, first_line>>

\* Backpropagation after a rollout that may stop before the game is over
\* (`if` in place of `while` in the rollout).
Backpropagate_early ==
    /\ pc = "rollout"
    /\ IF get_result_asserts(heap[state])
       THEN /\ pc' = "AssertionError"
            /\ UNCHANGED <<tree, node, i, started>>
       ELSE /\ tree' = Backpropagated(tree, node, heap[state])
            /\ node' = 0
            /\ i' = i + 1
            /\ started' = Append(started, node)
            /\ pc' = "for"
    /\ UNCHANGED <<heap, rootstate, itermax, state, ret, arg, plies, rootstate0,
                   first_line>>

\* The rollout loop ends; the whole backpropagation loop; the next i.
Backpropagate ==
    /\ pc = "rollout"
    /\ get_moves(heap[state]) = << >>
    /\ IF get_result_asserts(heap[state])
       THEN /\ pc' = "AssertionError"
            /\ UNCHANGED <<tree, node, i, started>>
       ELSE /\ tree' = Backpropagated(tree, node, heap[state])
            /\ node' = 0
            /\ i' = i + 1
            /\ started' = Append(started, node)
            /\ pc' = "for"
    /\ UNCHANGED <<heap, rootstate, itermax, state, ret, arg, plies, rootstate0,
                   first_line>>

\* The return statement guarded by `if not rootnode.child_nodes: return None`.
Return_sentinel ==
    /\ pc = "for"
    /\ i >= itermax
    /\ pc' = "done"
    /\ ret' = IF tree[1].child_nodes = << >> THEN None
              ELSE Some(tree[most_visited(tree)].move[1])
    /\ UNCHANGED <<heap, rootstate, itermax, i, tree, node, state, arg, plies,
                   rootstate0, started, first_line>>

\* return sorted(rootnode.child_nodes, key=lambda c: c.visits)[-1].move
Return ==
    /\ pc = "for"
    /\ i >= itermax
    /\ IF tree[1].child_nodes = << >>
       THEN /\ pc' = "IndexError"
            /\ UNCHANGED ret
       ELSE /\ pc' = "done"
            /\ ret' = Some(tree[most_visited(tree)].move[1])
    /\ UNCHANGED <<heap, rootstate, itermax, i, tree, node, state, arg, plies,
                   rootstate0, started, first_line>>

Next == Enter \/ Iterate \/ Select \/ Expand \/ Rollout \/ Backpropagate \/ Return

Spec == Init /\ [][Next]_vars

\* ------------------------------------------------- the games on their own

\* A caller of the game state classes: it plays moves on its state object,
\* legal or not, and clones it.  TicTacToe is played from the empty board;
\* SuperTicTacToe for at most MaxPlies moves from any position of a script.
GameRoots ==
    {TicTacToe_init}
        \cup UNION {{Position(s, k) : k \in 0..Len(s)} :
                        s \in SCRIPTS}

\* The moves a caller may pass to do_move: every square, and for TicTacToe
\* the two integers next to the board as well.
Candidates(self) ==
    IF self.game = "TicTacToe" THEN -1..9
    ELSE (0..8) \X (0..8)

GameInit ==
    /\ ScriptsAreLegal = TRUE
    /\ heap \in {[r \in {ROOT_REF} |-> s] : s \in GameRoots}
    /\ rootstate = ROOT_REF
    /\ itermax = 0
    /\ pc = "game"
    /\ i = 0
    /\ tree = << >>
    /\ node = 0
    /\ state = ROOT_REF
    /\ ret = None
    /\ arg = None
    /\ plies = 0
    /\ rootstate0 = heap[ROOT_REF]
    /\ started = << >>
    /\ first_line = 0

\* state.do_move(m); a failed assertion ends the caller.
Game_do_move ==
    /\ pc = "game"
    /\ heap[ROOT_REF].game = "TicTacToe" \/ plies < MaxPlies
    /\ \E m \in Candidates(heap[ROOT_REF]) :
          /\ arg' = Some(m)
          /\ IF do_move_assert(heap[ROOT_REF], m)
             THEN /\ heap' = [heap EXCEPT ![ROOT_REF] = do_move(@, m)]
                  /\ pc' = "game"
             ELSE /\ pc' = "AssertionError"
                  /\ UNCHANGED heap
    /\ plies' = plies + 1
    /\ UNCHANGED <<rootstate, itermax, i, tree, node, state, ret, rootstate0,
                   started, first_line>>

\* copy = state.clone()
Game_clone ==
    /\ pc = "game"
    /\ heap' = Cloned(heap, ROOT_REF)
    /\ state' = Allocate(ROOT_REF)
    /\ pc' = "cloned"
    /\ UNCHANGED <<rootstate, itermax, i, tree, node, ret, arg, plies,
                   rootstate0, started, first_line>>

GameNext == Game_do_move \/ Game_clone

SpecGame == GameInit /\ [][GameNext]_vars

\* ------------------------------------------------------ a game being played

\* play_game with the move of each turn left open: any move of get_moves()
\* (search returns one of the root's moves).  TicTacToe is played from the
\* empty board to the end; SuperTicTacToe to the end from the positions
\* search is called on, and for at most MaxPlies moves from the other
\* positions of a script.
PlayInit ==
    /\ ScriptsAreLegal = TRUE
    /\ heap \in {[r \in {ROOT_REF} |-> s] : s \in GameRoots}
    /\ rootstate = ROOT_REF
    /\ itermax = 0
    /\ pc = "play"
    /\ i = 0
    /\ tree = << >>
    /\ node = 0
    /\ state = ROOT_REF
    /\ ret = None
    /\ arg = None
    /\ plies = 0
    /\ rootstate0 = heap[ROOT_REF]
    /\ started = << >>
    /\ first_line = 0

\* first_line once the position is `self`: the player who has just moved is
\* the first with three in a row if nobody had a line before and they have
\* one now.
FirstLineAfter(self) ==
    IF first_line # 0 THEN first_line
    ELSE IF self.game = "TicTacToe" /\ HasLine(self.board, self.player_just_moved)
    THEN self.player_just_moved
    ELSE 0

\* The turn of a caller that passes do_move any empty square.
Play_do_move_any_empty_square ==
    /\ pc = "play"
    /\ get_moves(heap[ROOT_REF]) # << >>
    /\ \/ heap[ROOT_REF].game = "TicTacToe"
       \/ rootstate0 \in SuperTicTacToeRoots
       \/ plies < MaxPlies
    /\ \E m \in Candidates(heap[ROOT_REF]) :
          /\ do_move_assert(heap[ROOT_REF], m)
          /\ arg' = Some(m)
          /\ heap' = [heap EXCEPT ![ROOT_REF] = do_move(@, m)]
          /\ pc' = "play"
    /\ plies' = plies + 1
    /\ first_line' = FirstLineAfter(heap'[ROOT_REF])
    /\ UNCHANGED <<rootstate, itermax, i, tree, node, state, ret, rootstate0,
                   started>>

\* One turn of the loop of play_game: m = search(...); state.do_move(m)
Play_do_move ==
    /\ pc = "play"
    /\ get_moves(heap[ROOT_REF]) # << >>
    /\ \/ heap[ROOT_REF].game = "TicTacToe"
       \/ rootstate0 \in SuperTicTacToeRoots
       \/ plies < MaxPlies
    /\ \E m \in SeqToSet(get_moves(heap[ROOT_REF])) :
          /\ arg' = Some(m)
          /\ IF do_move_assert(heap[ROOT_REF], m)
             THEN /\ heap' = [heap EXCEPT ![ROOT_REF] = do_move(@, m)]
                  /\ pc' = "play"
             ELSE /\ pc' = "AssertionError"
                  /\ UNCHANGED heap
    /\ plies' = plies + 1
    /\ first_line' = FirstLineAfter(heap'[ROOT_REF])
    /\ UNCHANGED <<rootstate, itermax, i, tree, node, state, ret, rootstate0,
                   started>>

\* The end of a play_game whose loop may stop while moves are left.
Play_get_result_early ==
    /\ pc = "play"
    /\ IF get_result_asserts(heap[ROOT_REF])
       THEN /\ pc' = "AssertionError"
            /\ UNCHANGED ret
       ELSE /\ pc' = "over"
            /\ ret' = Some(get_result(heap[ROOT_REF],
                                      heap[ROOT_REF].player_just_moved))
    /\ UNCHANGED <<heap, rootstate, itermax, i, tree, node, state, arg, plies,
                   rootstate0, started, first_line>>

\* The loop of play_game ends; state.get_result(state.player_just_moved)
Play_get_result ==
    /\ pc = "play"
    /\ get_moves(heap[ROOT_REF]) = << >>
    /\ IF get_result_asserts(heap[ROOT_REF])
       THEN /\ pc' = "AssertionError"
            /\ UNCHANGED ret
       ELSE /\ pc' = "over"
            /\ ret' = Some(get_result(heap[ROOT_REF],
                                      heap[ROOT_REF].player_just_moved))
    /\ UNCHANGED <<heap, rootstate, itermax, i, tree, node, state, arg, plies,
                   rootstate0, started, first_line>>

PlayNext == Play_do_move \/ Play_get_result

SpecPlay == PlayInit /\ [][PlayNext]_vars

\* ------------------------------------------------------------ properties

\* search is between two iterations, or has ended.
BetweenIterations == tree # << >> /\ pc \in {"for", "done", "IndexError"}

Nodes == 1..Len(tree)

Children(n) == SeqToSet(tree[n].child_nodes)

\* The nodes on the parent links from n to the root, both included.
RECURSIVE PathToRoot(_)
PathToRoot(n) == IF n = 0 THEN {} ELSE {n} \cup PathToRoot(tree[n].parent_node)

RECURSIVE SumVisits(_)
SumVisits(cs) ==
    IF cs = << >> THEN 0 ELSE tree[Head(cs)].visits + SumVisits(Tail(cs))

\* The number of iterations whose backpropagation started at node n.
StartedAt(n) == Cardinality({k \in 1..Len(started) : started[k] = n})

\* The position a node stands for: the caller's position for the root,
\* and the parent's position after the node's move otherwise.
RECURSIVE PositionOf(_)
PositionOf(n) ==
    IF tree[n].parent_node = 0 THEN rootstate0
    ELSE do_move(PositionOf(tree[n].parent_node), tree[n].move[1])

\* C1: after N completed iterations the root has N visits, and every node's
\* visits are its children's visits plus the iterations whose
\* backpropagation started at it.
C1_VisitConservation ==
    BetweenIterations =>
        /\ tree[1].visits = i
        /\ Len(started) = i
        /\ \A n \in Nodes :
              tree[n].visits = SumVisits(tree[n].child_nodes) + StartedAt(n)

\* A node below the root that was expanded in one iteration and passed
\* through by a later one, and a terminal node reached twice.
C1_Witness ==
    /\ BetweenIterations
    /\ i = 3
    /\ \E n \in Nodes \ {1} :
          /\ tree[n].child_nodes # << >>
          /\ StartedAt(n) = 1
          /\ tree[n].visits = 2

\* C2: when the root has a child at the end, search returns the move of a
\* root child that no other root child exceeds in visits.
C2_ReturnsMostVisited ==
    pc = "done" =>
        \E c \in Children(1) :
            /\ ret = Some(tree[c].move[1])
            /\ \A d \in Children(1) : tree[d].visits <= tree[c].visits

\* The returned child has strictly more visits and a strictly worse win
\* rate than another child.
C2_Witness ==
    /\ pc = "done"
    /\ \E c, d \in Children(1) :
          /\ ret = Some(tree[c].move[1])
          /\ tree[d].visits < tree[c].visits
          /\ tree[d].wins * tree[c].visits > tree[c].wins * tree[d].visits

\* C3: one backpropagation adds a visit, and the result seen by the node's
\* own player_just_moved, to exactly the nodes from the node the iteration
\* ended at up to the root; every other node is left as it was.
C3_BackpropagationPath ==
    [][(pc = "rollout" /\ pc' = "for") =>
          /\ Len(tree') = Len(tree)
          /\ \A n \in Nodes :
                IF n \in PathToRoot(node)
                THEN tree'[n] =
                        [tree[n] EXCEPT
                            !.visits = @ + 1,
                            !.wins = @ + get_result(heap[state],
                                                    tree[n].player_just_moved)]
                ELSE tree'[n] = tree[n]]_vars

\* A backpropagation over a path of three nodes has given a node and its
\* parent different rewards, and has left some visited node aside.
C3_Witness ==
    /\ pc = "for"
    /\ started # << >>
    /\ LET n == started[Len(started)]
           p == tree[n].parent_node
       IN  /\ p # 0
           /\ tree[p].parent_node # 0
           /\ tree[n].visits = 1
           /\ tree[n].wins # tree[p].wins - tree[n].wins
           /\ \E m \in Nodes \ PathToRoot(n) : tree[m].visits > 0

\* C4: between iterations, for every node, the children's moves are
\* pairwise distinct, none of them is an untried move, and together with
\* the untried moves they are the legal moves of the node's position.
C4_MovesPartition ==
    BetweenIterations =>
        \A n \in Nodes :
            LET cs == tree[n].child_nodes
                ut == tree[n].untried_moves
                legal == get_moves(PositionOf(n))
            IN  /\ \A j, k \in 1..Len(cs) :
                      j # k => tree[cs[j]].move # tree[cs[k]].move
                /\ \A j, k \in 1..Len(ut) : j # k => ut[j] # ut[k]
                /\ \A k \in 1..Len(cs) : tree[cs[k]].move[1] \notin SeqToSet(ut)
                /\ {tree[c].move[1] : c \in Children(n)} \cup SeqToSet(ut)
                      = SeqToSet(legal)
                /\ Len(cs) + Len(ut) = Len(legal)

\* A root with children and untried moves, and a node below it with a child.
C4_Witness ==
    /\ BetweenIterations
    /\ \E n \in Nodes :
          /\ tree[n].child_nodes # << >>
          /\ tree[n].untried_moves # << >>
    /\ \E n \in Nodes \ {1} : tree[n].child_nodes # << >>

\* C5: whenever select_child is evaluated, the node and each of its
\* children have at least one visit, and neither the division nor the
\* logarithm of UCB1 fails.
C5_SelectIsDefined ==
    /\ pc \notin {"ZeroDivisionError", "ValueError"}
    /\ (pc = "select" /\ FullyExpanded(node)) =>
          /\ tree[node].visits >= 1
          /\ \A c \in Children(node) : tree[c].visits >= 1
          /\ select_child_raises(tree, node) = ""

\* select_child is about to be evaluated below the root.
C5_Witness ==
    /\ pc = "select"
    /\ FullyExpanded(node)
    /\ node # 1
    /\ Len(tree[1].child_nodes) >= 2

\* C6: between iterations every node has 0 <= wins <= visits (wins are
\* counted in halves here).
C6_WinsWithinVisits ==
    BetweenIterations =>
        \A n \in Nodes : 0 <= tree[n].wins /\ tree[n].wins <= 2 * tree[n].visits

\* A tree with a node that won every visit, one that lost every visit and
\* one with a draw.
C6_Witness ==
    /\ BetweenIterations
    /\ \E n \in Nodes : tree[n].visits > 0 /\ tree[n].wins = 2 * tree[n].visits
    /\ \E n \in Nodes : tree[n].visits > 0 /\ tree[n].wins = 0
    /\ \E n \in Nodes : tree[n].wins % 2 = 1

\* C7: search never changes a field of the state object it was given.
C7_RootStateUnchanged ==
    /\ rootstate = ROOT_REF
    /\ heap[rootstate] = rootstate0

\* search has returned after moves were played on a clone of a
\* SuperTicTacToe position.
C7_Witness ==
    /\ pc = "done"
    /\ i >= 2
    /\ rootstate0.game = "SuperTicTacToe"
    /\ state # rootstate
    /\ heap[state].squares_played > rootstate0.squares_played
    /\ heap[state].board # rootstate0.board

\* C8: clone() returns a state with the fields of the original, and so with
\* the same legal moves.
C8_CloneIsCopy ==
    pc = "cloned" =>
        /\ heap[state] = heap[ROOT_REF]
        /\ get_moves(heap[state]) = get_moves(heap[ROOT_REF])

\* C9: do_move with a move that is not in get_moves() fails an assertion
\* and leaves the state as it was.
C9_IllegalMoveFails ==
    [][(pc = "game" /\ plies' = plies + 1
            /\ arg'[1] \notin SeqToSet(get_moves(heap[ROOT_REF])))
          => (pc' = "AssertionError" /\ heap' = heap)]_vars

\* C10: with no legal move at the root, or an iteration budget <= 0, search
\* ends in the IndexError of its return statement and returns nothing.
C10_NoChildrenIsAnError ==
    (get_moves(rootstate0) = << >> \/ itermax <= 0) =>
        /\ ret = None
        /\ pc \in {"call", "for", "select", "rollout", "IndexError"}
        /\ (pc = "for" /\ i >= itermax) => tree[1].child_nodes = << >>

\* search has run its iterations on a terminal position and failed.
C10_Witness ==
    /\ pc = "IndexError"
    /\ itermax >= 2
    /\ tree[1].visits = itermax
    /\ get_moves(rootstate0) = << >>

\* The game position of the caller's state object.
Current == heap[ROOT_REF]

\* C11: in every terminal position reached by legal moves, the results of
\* the two players add up to 1.0 (two halves): a win and a loss, or two
\* draws.
C11_ResultSymmetry ==
    (pc \in {"play", "over"} /\ get_moves(Current) = << >>) =>
        /\ ~get_result_asserts(Current)
        /\ \A p \in {1, 2} :
              /\ get_result(Current, p) + get_result(Current, 3 - p) = WIN
              /\ <<get_result(Current, p), get_result(Current, 3 - p)>>
                    \in {<<WIN, LOSS>>, <<LOSS, WIN>>, <<DRAW, DRAW>>}

\* play_game has taken the result of a full TicTacToe board on which both
\* players have three in a row.
C11_Witness ==
    /\ pc = "over"
    /\ Current.game = "TicTacToe"
    /\ HasLine(Current.board, 1)
    /\ HasLine(Current.board, 2)
    /\ ret \in {Some(WIN), Some(LOSS)}

\* The squares of a SuperTicTacToe board, as pairs of TLA+ indices.
Squares == (1..9) \X (1..9)

\* The counters of a SuperTicTacToe position agree with its board.
CountersAgree(self) ==
    /\ self.squares_played =
          Cardinality({q \in Squares : self.board[q[1]][q[2]] # 0})
    /\ \A p \in {1, 2} :
          self.sub_boards_won[p + 1] =
              Cardinality({sb \in 1..9 : HasLine(self.board[sb], p)})

\* No step changes a square that holds a mark.
MarksStay ==
    \A q \in Squares :
        Current.board[q[1]][q[2]] # 0 =>
            heap'[ROOT_REF].board[q[1]][q[2]] = Current.board[q[1]][q[2]]

\* C12: in every SuperTicTacToe position reached by moves of get_moves(),
\* squares_played is the number of marked squares and sub_boards_won[p] the
\* number of sub boards in which p has three in a row; and no move changes
\* a square that is already marked.
C12_SuperTicTacToeInvariants ==
    /\ [](Current.game = "SuperTicTacToe" => CountersAgree(Current))
    /\ [][Current.game = "SuperTicTacToe" => MarksStay]_vars

\* A move of get_moves() has just won a sub board.
C12_Witness ==
    /\ pc = "play"
    /\ Current.game = "SuperTicTacToe"
    /\ plies >= 1
    /\ Current.sub_boards_won[Current.player_just_moved + 1]
          > rootstate0.sub_boards_won[Current.player_just_moved + 1]
    /\ get_moves(Current) # << >>

\* The mark on the square of a move.
MarkAt(self, move) ==
    IF self.game = "TicTacToe" THEN self.board[move + 1]
    ELSE self.board[move[1] + 1][move[2] + 1]

\* C14: the root's player_just_moved is that of the state search was called
\* on (the opponent of the player to move there), every other node's is
\* the opponent of its parent's and the player who made the node's move,
\* and no step changes the player_just_moved of a node.
C14_PlayerJustMoved ==
    /\ [](\A n \in Nodes :
            /\ tree[n].player_just_moved = PositionOf(n).player_just_moved
            /\ IF tree[n].parent_node = 0
               THEN tree[n].player_just_moved = 3 - (3 - rootstate0.player_just_moved)
               ELSE /\ tree[n].player_just_moved
                          = 3 - tree[tree[n].parent_node].player_just_moved
                    /\ tree[n].player_just_moved
                          = MarkAt(PositionOf(n), tree[n].move[1]))
    /\ [][\A n \in Nodes :
             tree'[n].player_just_moved = tree[n].player_just_moved]_vars

\* A tree three nodes deep, after backpropagations have updated its nodes.
C14_Witness ==
    /\ pc = "for"
    /\ i >= 3
    /\ \E n \in Nodes :
          /\ tree[n].parent_node > 1
          /\ tree[n].visits >= 1
          /\ tree[n].player_just_moved = tree[1].player_just_moved
          /\ tree[tree[n].parent_node].player_just_moved
                # tree[1].player_just_moved

\* C15: a full TicTacToe board on which neither player has three in a row
\* has no legal move and gives both players 0.5.
C15_DrawDetection ==
    (/\ pc \in {"play", "over"}
     /\ Current.game = "TicTacToe"
     /\ \A k \in 1..9 : Current.board[k] # 0
     /\ ~HasLine(Current.board, 1)
     /\ ~HasLine(Current.board, 2))
        => /\ get_moves(Current) = << >>
           /\ ~get_result_asserts(Current)
           /\ get_result(Current, 1) = DRAW
           /\ get_result(Current, 2) = DRAW

\* play_game has taken the result of a full TicTacToe board without a line.
C15_Witness ==
    /\ pc = "over"
    /\ Current.game = "TicTacToe"
    /\ \A k \in 1..9 : Current.board[k] # 0
    /\ ~HasLine(Current.board, 1)
    /\ ~HasLine(Current.board, 2)
    /\ ret = Some(DRAW)

\* C16: the child that a turn of the selection loop descends to is a child
\* of the node with the greatest UCB1 score: no child of the node has a
\* greater one.
C16_SelectsMaximalUCB1 ==
    [][(pc = "select" /\ FullyExpanded(node)
            /\ select_child_raises(tree, node) = "")
          => /\ node' \in Children(node)
             /\ \A d \in Children(node) :
                   UCB1(tree[node], tree[d]) <= UCB1(tree[node], tree[node'])]_vars

\* Selection has descended to a child with a lower win rate than one of
\* its siblings: the exploration term decided.
C16_Witness ==
    /\ pc = "select"
    /\ node > 1
    /\ \E d \in Children(tree[node].parent_node) :
          /\ tree[d].wins * tree[node].visits > tree[node].wins * tree[d].visits
          /\ UCB1(tree[tree[node].parent_node], tree[d])
                < UCB1(tree[tree[node].parent_node], tree[node])

\* C17: in TicTacToe a position with three in a row has no legal move, and
\* where there is no legal move get_result(p) is 1.0 exactly when p was
\* the first to have three in a row, 0.0 exactly when the opponent was, and
\* 0.5 exactly when nobody has.
C17_ResultIsFirstLine ==
    (pc \in {"play", "over"} /\ Current.game = "TicTacToe") =>
        /\ (HasLine(Current.board, 1) \/ HasLine(Current.board, 2))
              => get_moves(Current) = << >>
        /\ get_moves(Current) = << >> =>
              \A p \in {1, 2} :
                  /\ get_result(Current, p) = WIN <=> first_line = p
                  /\ get_result(Current, p) = LOSS <=> first_line = 3 - p
                  /\ get_result(Current, p) = DRAW <=> first_line = 0

\* A sub board (TLA+ index) that neither player has won and that is not
\* full, read from the board.
Available(self, sb) ==
    /\ ~HasLine(self.board[sb], 1)
    /\ ~HasLine(self.board[sb], 2)
    /\ \E sq \in 1..9 : self.board[sb][sq] = 0

\* The moves to the empty squares of the sub boards in S.
EmptySquares(self, S) ==
    {<<q[1] - 1, q[2] - 1>> : q \in {r \in Squares : r[1] \in S /\ self.board[r[1]][r[2]] = 0}}

\* A player has three in a row in SUB_BOARDS_TO_WIN sub boards.
GameIsOver(self) ==
    \E p \in {1, 2} :
        Cardinality({sb \in 1..9 : HasLine(self.board[sb], p)}) >= SUB_BOARDS_TO_WIN

\* get_moves() lists, once each, the empty squares of the sub board named
\* by the last square played when that one is available, and of all
\* available sub boards otherwise.
MovesFollowLastSquare(self) ==
    /\ SeqToSet(get_moves(self)) =
          IF Available(self, self.last_square_played + 1)
          THEN EmptySquares(self, {self.last_square_played + 1})
          ELSE EmptySquares(self, {sb \in 1..9 : Available(self, sb)})
    /\ Len(get_moves(self)) = Cardinality(SeqToSet(get_moves(self)))

\* C18: in SuperTicTacToe, after the first move and while the game is not
\* over, get_moves() is the empty squares of the sub board with the index
\* of the last square played if that sub board is available, and of all
\* available sub boards otherwise; and no move of a game played with
\* get_moves() marks a square of a sub board that is won or full.
C18_MovesFollowLastSquare ==
    /\ []((/\ Current.game = "SuperTicTacToe"
           /\ Current.squares_played > 0
           /\ ~GameIsOver(Current))
            => /\ MovesFollowLastSquare(Current)
               /\ plies >= 1 => Current.last_square_played = arg[1][2])
    /\ [][Current.game = "SuperTicTacToe" =>
            \A q \in Squares :
                heap'[ROOT_REF].board[q[1]][q[2]] # Current.board[q[1]][q[2]]
                    => Available(Current, q[1])]_vars

\* A move has been played into a sub board chosen freely, the sub board of
\* the square before it being won or full, while another sub board that is
\* won still has empty squares.
C18_Witness ==
    /\ pc = "play"
    /\ Current.game = "SuperTicTacToe"
    /\ plies >= 2
    /\ ~GameIsOver(Current)
    /\ ~Available(Current, Current.last_square_played + 1)
    /\ \E sb \in 1..9 :
          /\ ~Available(Current, sb)
          /\ EmptySquares(Current, {sb}) # {}
    /\ get_moves(Current) # << >>

\* C19: search never fails an assertion; a step that adds visits (the
\* backpropagation, which evaluates get_result) is taken only when the
\* working state has no legal move, get_result does not reach its
\* `assert False` there, and the step goes up to the root and leaves node
\* as None; an iteration starts only with node as None.
C19_ResultOnlyWhenTerminal ==
    /\ [](pc # "AssertionError")
    /\ [][(\E n \in Nodes : tree'[n].visits # tree[n].visits)
             => /\ get_moves(heap[state]) = << >>
                /\ ~get_result_asserts(heap[state])
                /\ tree'[1].visits = tree[1].visits + 1
                /\ node' = 0]_vars
    /\ [][(pc = "for" /\ pc' = "select") => node = 0]_vars

\* A backpropagation has followed a rollout that played at least one move
\* and ended on a full TicTacToe board without any line.
C19_Witness ==
    /\ pc = "for"
    /\ i >= 2
    /\ heap[state].game = "TicTacToe"
    /\ get_moves(heap[state]) = << >>
    /\ TicTacToe_equal_lines(heap[state]) = << >>
    /\ PositionOf(started[Len(started)]) # heap[state]

\* C20: only the expansion of a node with untried moves adds a node, and it
\* adds exactly one, as the last child of the node selection reached; no
\* step removes a node or changes the parent, the move or (but for the new
\* child) the children of a node; between iterations every node but the
\* root is the node some iteration's backpropagation started at, and after
\* i iterations the tree has at most i + 1 nodes.
C20_OneNodePerIteration ==
    /\ [](BetweenIterations =>
            /\ Len(tree) <= i + 1
            /\ Nodes \ {1} = SeqToSet(started) \ {1})
    /\ [][tree # << >> =>
            /\ Len(tree') \in {Len(tree), Len(tree) + 1}
            /\ Len(tree') = Len(tree) + 1
                  <=> (pc = "select" /\ pc' = "rollout"
                          /\ tree[node].untried_moves # << >>)
            /\ Len(tree') = Len(tree) + 1
                  => /\ tree'[Len(tree')].parent_node = node
                     /\ node' = Len(tree')
                     /\ tree'[node].child_nodes
                           = Append(tree[node].child_nodes, Len(tree'))
            /\ \A n \in Nodes :
                  /\ tree'[n].parent_node = tree[n].parent_node
                  /\ tree'[n].move = tree[n].move
                  /\ \/ tree'[n].child_nodes = tree[n].child_nodes
                     \/ n = node /\ Len(tree') = Len(tree) + 1]_vars

\* Some iterations have added a node and some have not.
C20_Witness ==
    /\ BetweenIterations
    /\ i >= 4
    /\ Len(tree) >= 3
    /\ Len(tree) < i + 1
    /\ \E n \in Nodes \ {1} : StartedAt(n) >= 2

\* ----------------------------------------------------------------- C21

\* C21: called on a state with a legal move and with itermax >= 1, search
\* raises nothing, and the move it returns is one of get_moves() of the
\* caller's state, as that state was at the call and as it is at the return.
C21_ReturnedMoveIsLegal ==
    (get_moves(rootstate0) # << >> /\ itermax >= 1) =>
        /\ pc \in {"call", "for", "select", "rollout", "done"}
        /\ pc = "done" =>
              /\ ret # None
              /\ ret[1] \in SeqToSet(get_moves(rootstate0))
              /\ ret[1] \in SeqToSet(get_moves(heap[rootstate]))
              /\ do_move_assert(heap[rootstate], ret[1])

\* search has returned a move of a SuperTicTacToe position in which the
\* last square played matters and there was a choice.
C21_Witness ==
    /\ pc = "done"
    /\ ret # None
    /\ itermax >= 2
    /\ rootstate0.game = "SuperTicTacToe"
    /\ rootstate0.last_square_played # 0
    /\ Len(get_moves(rootstate0)) >= 2
    /\ ret[1] \in SeqToSet(get_moves(rootstate0))

\* ----------------------------------------------------------------- C22

\* search has returned or raised.
Terminated == pc \notin {"call", "for", "select", "rollout"}

\* The number of empty squares of a position.
EmptyCount(self) ==
    IF self.game = "TicTacToe"
    THEN Cardinality({k \in 1..9 : self.board[k] = 0})
    ELSE Cardinality({q \in Squares : self.board[q[1]][q[2]] = 0})

\* An upper bound on the steps of one iteration: the loop head, one step
\* for each empty square of the root position, the expansion and the
\* backpropagation.
IterationSteps == EmptyCount(rootstate0) + 3

\* An upper bound on the steps search still takes.
StepsLeft ==
    LET left == IF itermax > i THEN itermax - i ELSE 0
    IN  IF Terminated THEN 0
        ELSE IF pc = "call" THEN left * IterationSteps + 3
        ELSE IF pc = "for" THEN left * IterationSteps + 2
        ELSE IF pc = "select"
        THEN (left - 1) * IterationSteps + EmptyCount(heap[state]) + 4
        ELSE (left - 1) * IterationSteps + EmptyCount(heap[state]) + 3

\* A step of the selection descent or of the rollout loop that applies a
\* move fills exactly one empty square of the working state.
MoveFillsOneSquare ==
    (pc \in {"select", "rollout"} /\ heap'[state] # heap[state]) =>
        EmptyCount(heap'[state]) = EmptyCount(heap[state]) - 1

\* Every parent link leads to an older node, and only the root has none.
ParentChainsEndAtRoot ==
    \A n \in Nodes :
        /\ tree[n].parent_node \in 0..(n - 1)
        /\ tree[n].parent_node = 0 <=> n = 1
        /\ 1 \in PathToRoot(n)

\* C22: search terminates: every step lowers a bound on the steps left,
\* which is a natural number and is zero only once search has returned or
\* raised; inside an iteration the current node and the working state
\* exist; every move applied in the selection descent and in the
\* rollout fills one empty square of the working state, which has at most 9
\* (TicTacToe) or 81 (SuperTicTacToe) and no legal move when none is
\* empty; and every parent chain that backpropagation walks ends at the
\* root.
C22_SearchTerminates ==
    /\ [](StepsLeft \in Nat /\ (StepsLeft = 0 <=> Terminated))
    /\ [](pc \in {"select", "rollout"} =>
            node \in Nodes /\ state \in DOMAIN heap)
    /\ [][StepsLeft' < StepsLeft]_vars
    /\ [][MoveFillsOneSquare]_vars
    /\ [](state \in DOMAIN heap =>
            /\ EmptyCount(heap[state]) <=
                  IF heap[state].game = "TicTacToe" THEN 9 ELSE 81
            /\ EmptyCount(heap[state]) = 0 => get_moves(heap[state]) = << >>)
    /\ []ParentChainsEndAtRoot

\* search has returned after MaxIter iterations, one of which descended
\* below a child of the root.
C22_Witness ==
    /\ pc = "done"
    /\ itermax = MaxIter
    /\ i = itermax
    /\ \E n \in Nodes : tree[n].parent_node > 1
    /\ StepsLeft = 0

\* ----------------------------------------------------------------- C23
\* The SuperTicTacToe class of src/board.py.

\* Python's == between a list and an int: never equal.
ListEqualsInt(l, x) == FALSE

Board_SuperTicTacToe_init ==
    [game |-> "board.SuperTicTacToe",
     player_just_moved |-> 2,
     board |-> [sb \in 1..9 |-> <<0, 0, 0, 0, 0, 0, 0, 0, 0>>],
     sub_boards_won |-> <<0, 0, 0>>,
     squares_played |-> 0,
     last_square_played |-> 0]

\* sub_board_result: the first line of the list whose three squares are
\* equal (empty ones included) decides, by comparing self.board[x], a sub
\* board, with the player; None when no line has equal squares.
Board_sub_board_result(self, player, sub_board) ==
    LET sub == self.board[sub_board + 1]
        equal == {k \in 1..Len(LINES) :
                     /\ sub[LINES[k][1] + 1] = sub[LINES[k][2] + 1]
                     /\ sub[LINES[k][2] + 1] = sub[LINES[k][3] + 1]}
        first == CHOOSE k \in equal : \A j \in equal : k <= j
    IN  IF equal = {} THEN None
        ELSE IF ListEqualsInt(self.board[LINES[first][1] + 1], player)
        THEN Some(WIN)
        ELSE Some(LOSS)

Board_do_move_assert(self, move) ==
    /\ Len(move) = 2
    /\ self.board[move[1] + 1][move[2] + 1] = 0

\* The state do_move has marked when it calls sub_board_result.
Board_marked(self, move) ==
    [self EXCEPT !.player_just_moved = 3 - self.player_just_moved,
                 !.last_square_played = move[2],
                 !.squares_played = @ + 1,
                 !.board[move[1] + 1][move[2] + 1] = 3 - self.player_just_moved]

\* do_move reaches sys.exit(1).
Board_do_move_exits(self, move) ==
    Board_sub_board_result(Board_marked(self, move),
                           3 - self.player_just_moved, move[1]) = Some(WIN)

Board_do_move(self, move) ==
    IF Board_do_move_exits(self, move)
    THEN [Board_marked(self, move) EXCEPT
              !.sub_boards_won[(3 - self.player_just_moved) + 1] = @ + 1]
    ELSE Board_marked(self, move)

Board_sub_board_is_available(self, sub_board) ==
    IF Board_sub_board_result(self, 1, sub_board) = Some(WIN) THEN FALSE
    ELSE IF Board_sub_board_result(self, 2, sub_board) = Some(WIN) THEN FALSE
    ELSE \E sq \in 0..8 : self.board[sub_board + 1][sq + 1] = 0

Board_get_moves(self) ==
    IF \/ self.sub_boards_won[1 + 1] = 3
       \/ self.sub_boards_won[2 + 1] = 3
    THEN << >>
    ELSE IF self.squares_played = 0
    THEN Flatten([sb \in 1..9 |-> [sq \in 1..9 |-> <<sb - 1, sq - 1>>]])
    ELSE IF Board_sub_board_is_available(self, self.last_square_played)
    THEN SubBoardMoves(self, self.last_square_played)
    ELSE Flatten([k \in 1..9 |->
                    IF Board_sub_board_is_available(self, k - 1)
                    THEN SubBoardMoves(self, k - 1)
                    ELSE << >>])

\* The first moves of a game: O is one move from the diagonal 0, 4, 8 of
\* sub board 1.
BOARD_OPENING == <<<<0, 1>>, <<1, 4>>, <<4, 1>>, <<1, 8>>, <<8, 1>>>>

RECURSIVE Board_Position(_)
Board_Position(n) ==
    IF n = 0 THEN Board_SuperTicTacToe_init
    ELSE Board_do_move(Board_Position(n - 1), BOARD_OPENING[n])

\* Every move of the opening is in get_moves() of its position and ends in
\* no exit.
BoardOpeningIsLegal ==
    \A n \in 1..Len(BOARD_OPENING) :
        /\ BOARD_OPENING[n] \in SeqToSet(Board_get_moves(Board_Position(n - 1)))
        /\ ~Board_do_move_exits(Board_Position(n - 1), BOARD_OPENING[n])

\* A caller of board.SuperTicTacToe: from a position of the opening it plays
\* at most MaxPlies moves of get_moves().
BoardInit ==
    /\ BoardOpeningIsLegal = TRUE
    /\ heap \in {[r \in {ROOT_REF} |-> Board_Position(k)] :
                    k \in 0..Len(BOARD_OPENING)}
    /\ rootstate = ROOT_REF
    /\ itermax = 0
    /\ pc = "board"
    /\ i = 0
    /\ tree = << >>
    /\ node = 0
    /\ state = ROOT_REF
    /\ ret = None
    /\ arg = None
    /\ plies = 0
    /\ rootstate0 = heap[ROOT_REF]
    /\ started = << >>
    /\ first_line = 0

\* state.do_move(m) for a move of state.get_moves(); sys.exit ends the
\* program after the counter was incremented.
Board_play ==
    /\ pc = "board"
    /\ plies < MaxPlies
    /\ \E m \in SeqToSet(Board_get_moves(heap[ROOT_REF])) :
          /\ arg' = Some(m)
          /\ IF Board_do_move_assert(heap[ROOT_REF], m)
             THEN /\ heap' = [heap EXCEPT ![ROOT_REF] = Board_do_move(@, m)]
                  /\ pc' = IF Board_do_move_exits(heap[ROOT_REF], m)
                           THEN "SystemExit" ELSE "board"
             ELSE /\ pc' = "AssertionError"
                  /\ UNCHANGED heap
    /\ plies' = plies + 1
    /\ UNCHANGED <<rootstate, itermax, i, tree, node, state, ret, rootstate0,
                   started, first_line>>

BoardNext == Board_play

SpecBoard == BoardInit /\ [][BoardNext]_vars

\* The move of this step gave the mover three in a row in its sub board.
CompletesLine ==
    /\ pc = "board"
    /\ plies' = plies + 1
    /\ ~HasLine(heap[ROOT_REF].board[arg'[1][1] + 1],
                3 - heap[ROOT_REF].player_just_moved)
    /\ HasLine(heap'[ROOT_REF].board[arg'[1][1] + 1],
               3 - heap[ROOT_REF].player_just_moved)

\* C23: in the SuperTicTacToe of board.py, a do_move that completes three
\* in a row for the mover in a sub board increments sub_boards_won for that
\* player and ends the program through sys.exit.
C23_SubBoardWinExits ==
    [][CompletesLine =>
          /\ pc' = "SystemExit"
          /\ heap'[ROOT_REF].sub_boards_won[heap'[ROOT_REF].player_just_moved + 1]
                = heap[ROOT_REF].sub_boards_won[heap'[ROOT_REF].player_just_moved + 1] + 1]_vars

\* ----------------------------------------------------------------- C24

\* A state as its constructor leaves it.
InitialState(self) == self \in {TicTacToe_init, SuperTicTacToe_init}

\* The player who moves in position `self`.
Mover(self) == 3 - self.player_just_moved

\* A turn of the loop of play_game: search was called and its move applied.
Turn == pc = "play" /\ plies' = plies + 1

\* C24: in play_game every turn is taken in a position with a legal move,
\* the move applied is in get_moves() of that position, it places the mark
\* of the player to move on one empty square, and the players alternate,
\* player 1 moving first from an initial state; the loop ends exactly when
\* get_moves() is empty, without an exception, after at most as many moves
\* as the first position had empty squares.
C24_PlayGameAlternates ==
    /\ [][Turn =>
            /\ get_moves(Current) # << >>
            /\ arg'[1] \in SeqToSet(get_moves(Current))
            /\ pc' = "play"
            /\ heap'[ROOT_REF].player_just_moved = Mover(Current)
            /\ Mover(heap'[ROOT_REF]) = Current.player_just_moved
            /\ MarkAt(Current, arg'[1]) = 0
            /\ MarkAt(heap'[ROOT_REF], arg'[1]) = Mover(Current)
            /\ EmptyCount(heap'[ROOT_REF]) = EmptyCount(Current) - 1
            /\ InitialState(Current) => Mover(Current) = 1]_vars
    /\ [](pc \in {"play", "over"})
    /\ [](Current.player_just_moved =
            IF plies % 2 = 0 THEN rootstate0.player_just_moved
            ELSE 3 - rootstate0.player_just_moved)
    /\ [](plies + EmptyCount(Current) = EmptyCount(rootstate0))
    /\ [](pc = "over" => get_moves(Current) = << >>)
    /\ [][(pc = "play" /\ get_moves(Current) = << >>) =>
            (pc' = "over" /\ heap' = heap)]_vars
    /\ [][pc = "over" => FALSE]_vars

\* A game of TicTacToe played from the initial state to a full board: nine
\* moves, the last one by player 1.
C24_Witness ==
    /\ pc = "over"
    /\ rootstate0 = TicTacToe_init
    /\ plies = 9
    /\ Current.player_just_moved = 1
    /\ get_moves(Current) = << >>

\* ----------------------------------------------------------------- C25

\* C25: between iterations, every child of a node that still has untried
\* moves was visited exactly once and has no children of its own.
C25_UntriedMeansLeafChildren ==
    BetweenIterations =>
        \A n \in Nodes :
            tree[n].untried_moves # << >> =>
                \A c \in Children(n) :
                    /\ tree[c].visits = 1
                    /\ tree[c].child_nodes = << >>

\* Below a fully expanded root, a node with an untried move whose children
\* are leaves visited once; a child of the root was visited again.
C25_Witness ==
    /\ BetweenIterations
    /\ tree[1].untried_moves = << >>
    /\ \E n \in Nodes \ {1} :
          /\ tree[n].untried_moves # << >>
          /\ Children(n) # {}
          /\ \A c \in Children(n) :
                tree[c].visits = 1 /\ tree[c].child_nodes = << >>
    /\ \E c \in Children(1) : tree[c].visits >= 2

\* ----------------------------------------------------------------- C26

RECURSIVE SumWins(_)
SumWins(cs) ==
    IF cs = << >> THEN 0 ELSE tree[Head(cs)].wins + SumWins(Tail(cs))

\* C26: when the root state has a legal move, after every completed
\* iteration root.wins plus the wins of the root's children equals
\* root.visits (wins are counted in halves here, a visit being WIN halves).
C26_ZeroSumAtRoot ==
    (BetweenIterations /\ get_moves(rootstate0) # << >>) =>
        tree[1].wins + SumWins(tree[1].child_nodes) = WIN * tree[1].visits

\* The root has won some and lost some, and an iteration ended in a draw
\* (an odd number of halves); two children share the rewards.
C26_Witness ==
    /\ BetweenIterations
    /\ get_moves(rootstate0) # << >>
    /\ tree[1].visits >= 3
    /\ Len(tree[1].child_nodes) >= 2
    /\ tree[1].wins % 2 = 1
    /\ tree[1].wins > DRAW
    /\ SumWins(tree[1].child_nodes) > DRAW
    /\ tree[1].wins + SumWins(tree[1].child_nodes) = WIN * tree[1].visits


====
